---------------------------- MODULE Spec2Model ----------------------------
(***************************************************************************)
(* State-machine model of the BeamLab structural solver.                   *)
(*                                                                         *)
(*   services/solver-python/solver.py      main, parse_input,              *)
(*                                         StructuralSolver, report_*      *)
(*   apps/backend-python/analysis/fea_engine.py   FEAEngine.analyze        *)
(*                                                                         *)
(* One behaviour is one run: of the command-line entry point main(), of a  *)
(* direct call of StructuralSolver.solve(), or of FEAEngine.analyze().     *)
(* Floating-point values are not represented; what the linear-algebra      *)
(* library returns is a choice among the outcomes its interface has.       *)
(* Stiffness values, where they are computed, are exact integers.          *)
(*                                                                         *)
(*   Spec        the runs of the program                                   *)
(*   SpecForce   _build_force_vector applied to two load lists             *)
(*   SpecTwice   two solves of one input under the direct solver           *)
(*   SpecEngine  FEAEngine.add_node with the support presets               *)
(*   SpecAssemble  SparseAssembler fed with element kernels                *)
(*   SpecLoop    the member loop of _assemble_global_stiffness             *)
(***************************************************************************)
EXTENDS Naturals, Integers, Sequences, FiniteSets, TLC

VARIABLES
    entry,      \* "main" | "solve" | "fea": how the run was started
    doc,        \* what main() finds as its input document
    input,      \* the model: nodes, members, supports, loads, config, bulk
    pc,         \* position of the run
    out,        \* stdout: the sequence of JSON records printed so far
    exitCode,   \* -1 while running, else the process exit status
    stderr,     \* "" | "usage" | "traceback"
    solver,     \* the StructuralSolver instance (NoSolver before __init__)
    useIter,    \* the use_iterative argument solve() was called with
    dofs,       \* result of _identify_dofs (NoDofs before it ran)
    calls,      \* the linear solvers invoked so far, in order
    sol,        \* the solver that ran and what the library did (NoSol before)
    result,     \* the dict solve() returned (NoResult before)
    analysis,   \* the AnalysisOutput of FEAEngine.analyze (NoAnalysis before)
    unit        \* a single function under check: its arguments and what it
                \* returned (NoUnit in the runs of the whole program)

vars == <<entry, doc, input, pc, out, exitCode, stderr, solver, useIter,
          dofs, calls, sol, result, analysis, unit>>

-----------------------------------------------------------------------------
(* Bounds of the model *)

MaxNodes == 2
MaxMembers == 1
MaxSupports == 1
MaxLoads == 1
MaxElements == 2
MaxRuns == 2

(* Program constants *)

DofsPerNode == 6
DirectMaxFreeDofs == 10000
IterativeNodeThreshold == 2000
TickEvery == 500
MaxIter == 2000

\* node counts of the models test_solver.py runs
TestSizes == {3, 100, 500, 2000}

-----------------------------------------------------------------------------
(* The input space *)

NodeIds == {"n1", "n2"}
UnknownId == "zz"

\* Support flags (dx, dy, dz, rx, ry, rz)
Fixed == <<TRUE, TRUE, TRUE, TRUE, TRUE, TRUE>>
NoFlags == <<FALSE, FALSE, FALSE, FALSE, FALSE, FALSE>>
Pinned == <<TRUE, TRUE, TRUE, FALSE, FALSE, FALSE>>
FlagSets == {Fixed, NoFlags, Pinned}

NodeRecs == [id : NodeIds]
MemberRecs == {[start |-> "n1", end |-> "n2"], [start |-> "n1", end |-> UnknownId]}
SupportRecs == [nodeId : NodeIds, flags : FlagSets]
\* load values play no part in the control flow; one loaded node is enough
LoadRecs == [nodeId : {"n1"}]

SeqUpTo(S, n) == UNION {[1..k -> S] : k \in 0..n}

\* A model may continue, after its explicitly listed nodes, with `bulk` further
\* nodes of fresh ids, each joined to its predecessor by one well-formed member
\* (the layout of generate_large_model); they carry no load, and `bulkFixed`
\* of them have a support record with all six flags set.
BulkSizes == {0} \cup {n - 2 : n \in TestSizes} \cup {IterativeNodeThreshold - 1}

\* the fewest fully fixed nodes that leave a model of more than
\* IterativeNodeThreshold nodes with at most DirectMaxFreeDofs free DOFs
ManyFixed ==
    (((IterativeNodeThreshold + 1) * DofsPerNode - DirectMaxFreeDofs)
        + (DofsPerNode - 1)) \div DofsPerNode
BulkFixedSizes == {0, ManyFixed}

\* "config" of the document: absent, {"useIterative": true}, or null
ConfigValues == {"absent", "true", "null"}
Incomplete == {"none", "node", "member", "support", "load"}

NoInput == [nodes |-> <<>>, members |-> <<>>, supports |-> <<>>, loads |-> <<>>,
            bulk |-> 0, bulkFixed |-> 0, config |-> "absent", incomplete |-> "none"]

Models ==
    {m \in [nodes : SeqUpTo(NodeRecs, MaxNodes),
            members : SeqUpTo(MemberRecs, MaxMembers),
            supports : SeqUpTo(SupportRecs, MaxSupports),
            loads : SeqUpTo(LoadRecs, MaxLoads),
            bulk : BulkSizes,
            bulkFixed : BulkFixedSizes,
            config : ConfigValues,
            incomplete : Incomplete] :
        /\ m.bulk > 0 => Len(m.nodes) > 0
        \* the long models are generated ones (generate_large_model): ids are
        \* unique, members join known nodes, supports are fixed ones
        /\ m.bulk > 1 =>
              /\ \A i, j \in 1..Len(m.nodes) : m.nodes[i].id = m.nodes[j].id => i = j
              /\ \A k \in 1..Len(m.members) :
                    \E i, j \in 1..Len(m.nodes) :
                        /\ i # j
                        /\ m.nodes[i].id = m.members[k].start
                        /\ m.nodes[j].id = m.members[k].end
              /\ \A k \in 1..Len(m.supports) : m.supports[k].flags # Pinned
        /\ m.bulkFixed > 0 => m.bulk = IterativeNodeThreshold - 1
        /\ m.incomplete = "node" => Len(m.nodes) > 0
        /\ m.incomplete = "member" => Len(m.members) > 0
        /\ m.incomplete = "support" => Len(m.supports) > 0
        /\ m.incomplete = "load" => Len(m.loads) > 0
        \* what is never read is left at its default
        /\ m.incomplete # "none" => m.config = "absent" /\ m.bulk = 0}


-----------------------------------------------------------------------------
(* Records printed on stdout *)

Rec(type, tag, pct) == [type |-> type, tag |-> tag, pct |-> pct]

\* report_progress: one progress record with its stage and percent
ReportProgress(o, stage, progress) == Append(o, Rec("progress", stage, progress))

\* the record report_error prints (it then calls sys.exit(1))
ErrorRecord(error) == Rec("error", error, 0)

\* the record main prints for the dict solve() returned
ResultRecord == Rec("result", "result", 0)

-----------------------------------------------------------------------------
(* StructuralSolver.__init__ and the lookups it sets up *)

NumNodes(m) == Len(m.nodes) + m.bulk
NumMembers(m) == Len(m.members) + m.bulk
NumSupports(m) == Len(m.supports) + m.bulkFixed

\* self.nodes = {n.id: n for n in nodes}: of two nodes with one id the later
\* one stays.  0 stands for "no such key" (dict.get returns None).
NodeOf(m, id) ==
    LET hits == {i \in 1..Len(m.nodes) : m.nodes[i].id = id}
    IN  IF hits = {} THEN 0 ELSE CHOOSE i \in hits : \A j \in hits : j <= i

\* self.supports = {s.node_id: s for s in supports}; 0 for "no such key"
SupportOf(m, id) ==
    LET hits == {i \in 1..Len(m.supports) : m.supports[i].nodeId = id}
    IN  IF hits = {} THEN 0 ELSE CHOOSE i \in hits : \A j \in hits : j <= i

NewSolver(m) == [num_nodes |-> NumNodes(m), num_dofs |-> NumNodes(m) * DofsPerNode]

-----------------------------------------------------------------------------
(* _assemble_global_stiffness *)

\* The k-th member of the list (1-based) contributes its element matrix:
\* both end ids resolve and the two ends are different nodes (length >= 1e-10;
\* distinct nodes lie at distinct points).  A bulk member joins the node
\* before it to its own fresh node.
MemberAssembled(m, k) ==
    IF k <= Len(m.members)
    THEN LET a == NodeOf(m, m.members[k].start)
             b == NodeOf(m, m.members[k].end)
         IN  a # 0 /\ b # 0 /\ a # b
    ELSE TRUE

\* "if (i + 1) % 500 == 0" is reached only by a member that was not skipped
TickPositions(m) ==
    SelectSeq([j \in 1..(NumMembers(m) \div TickEvery) |-> j * TickEvery],
              LAMBDA k : MemberAssembled(m, k))

TickProgress(m, k) == 10 + ((30 * k) \div NumMembers(m))

RECURSIVE EmitTicks(_, _, _)
EmitTicks(o, m, ks) ==
    IF ks = <<>> THEN o
    ELSE EmitTicks(ReportProgress(o, "assembling", TickProgress(m, Head(ks))), m, Tail(ks))

-----------------------------------------------------------------------------
(* _identify_dofs *)

\* DOFs of the explicitly listed nodes, 0-based as in the code; of the bulk
\* nodes the counts are kept: 6 constrained DOFs for each fixed one, 6 free
\* DOFs for each other.
RECURSIVE NodeDofs(_, _, _, _)
NodeDofs(m, i, d, wantConstrained) ==
    IF d > DofsPerNode THEN <<>>
    ELSE LET s == SupportOf(m, m.nodes[i].id)
             isC == s # 0 /\ m.supports[s].flags[d]
             here == IF isC = wantConstrained
                     THEN <<(i - 1) * DofsPerNode + (d - 1)>> ELSE <<>>
         IN  here \o NodeDofs(m, i, d + 1, wantConstrained)

RECURSIVE ScanNodes(_, _, _)
ScanNodes(m, i, wantConstrained) ==
    IF i > Len(m.nodes) THEN <<>>
    ELSE NodeDofs(m, i, 1, wantConstrained) \o ScanNodes(m, i + 1, wantConstrained)

\* as _identify_dofs without its inner "else: free_dofs.append(base + i)"
IdentifyDofs_SupportedNeverFree(m) ==
    [free |-> SelectSeq(ScanNodes(m, 1, FALSE),
                        LAMBDA d : SupportOf(m, m.nodes[(d \div DofsPerNode) + 1].id) = 0),
     constrained |-> ScanNodes(m, 1, TRUE),
     bulkFree |-> (m.bulk - m.bulkFixed) * DofsPerNode,
     bulkConstrained |-> m.bulkFixed * DofsPerNode]
IdentifyDofs(m) ==
    [free |-> ScanNodes(m, 1, FALSE),
     constrained |-> ScanNodes(m, 1, TRUE),
     bulkFree |-> (m.bulk - m.bulkFixed) * DofsPerNode,
     bulkConstrained |-> m.bulkFixed * DofsPerNode]

\* len(free_dofs), len(constrained_dofs)
NumFree(d) == Len(d.free) + d.bulkFree
NumConstrained(d) == Len(d.constrained) + d.bulkConstrained

-----------------------------------------------------------------------------
(* The reduced system K_ff the linear solver is handed.  Its values are not  *)
(* modelled; what is known of it is whether the frame it describes is held.  *)

Linked(m, a, b) ==
    \E k \in 1..Len(m.members) :
        /\ MemberAssembled(m, k)
        /\ {NodeOf(m, m.members[k].start), NodeOf(m, m.members[k].end)} = {a, b}

RECURSIVE Reach(_, _, _)
Reach(m, S, n) ==
    IF n = 0 THEN S
    ELSE Reach(m, S \cup {b \in 1..Len(m.nodes) : \E a \in S : Linked(m, a, b)}, n - 1)

Component(m, i) == Reach(m, {i}, Len(m.nodes))

\* the bulk nodes hang on the last listed node
HoldsBulkFixed(m, C) == m.bulkFixed > 0 /\ Len(m.nodes) \in C

FullyFixed(m, i) ==
    LET s == SupportOf(m, m.nodes[i].id)
    IN  s # 0 /\ \A d \in 1..DofsPerNode : m.supports[s].flags[d]

Unrestrained(m, i) ==
    LET s == SupportOf(m, m.nodes[i].id)
    IN  s = 0 \/ \A d \in 1..DofsPerNode : ~m.supports[s].flags[d]

\* "stable":   every node is joined, through assembled members, to a node
\*             restrained in all six DOFs: K_ff is positive definite.
\* "singular": some part of the frame carries no restraint at all (a rigid-
\*             body mode, or a node no member reaches): K_ff is singular.
\* "unknown":  anything between; the geometry decides.
Stability(m) ==
    IF \A i \in 1..Len(m.nodes) :
          \/ \E j \in Component(m, i) : FullyFixed(m, j)
          \/ HoldsBulkFixed(m, Component(m, i))
    THEN "stable"
    ELSE IF \E i \in 1..Len(m.nodes) :
               /\ \A j \in Component(m, i) : Unrestrained(m, j)
               /\ ~HoldsBulkFixed(m, Component(m, i))
    THEN "singular"
    ELSE "unknown"

-----------------------------------------------------------------------------
(* Values a variable holds before the code that sets it has run *)

NoSolver == [num_nodes |-> -1, num_dofs |-> -1]
NoDofs == [free |-> <<>>, constrained |-> <<>>, bulkFree |-> -1, bulkConstrained |-> -1]
\* sol: the solver that ran and what the library call in it did
NoSol == [method |-> "none", outcome |-> "none", precond |-> "none", iterations |-> 0,
          residual |-> "none"]
NoResult == [success |-> FALSE, ndisp |-> -1, solved |-> FALSE,
             solverInfo |-> [method |-> "none"]]
NoAnalysis == [success |-> FALSE, message |-> "none", reactions |-> -1,
               member_results |-> -1, is_stable |-> FALSE]
NoUnit == [fn |-> "none"]

-----------------------------------------------------------------------------
(* Ways a run ends *)

\* report_error: print the error record, then sys.exit(1).  SystemExit is not
\* an Exception, so no "except Exception" on the way up stops it.
ReportError(o, error) ==
    /\ out' = Append(o, ErrorRecord(error))
    /\ exitCode' = 1
    /\ stderr' = stderr
    /\ pc' = "exited"

\* an exception nothing catches: the interpreter prints the traceback on
\* stderr and exits with status 1; stdout keeps what was printed before
Uncaught(o) ==
    /\ out' = o
    /\ exitCode' = 1
    /\ stderr' = "traceback"
    /\ pc' = "exited"

-----------------------------------------------------------------------------
(* main *)

MainReadInput ==
    /\ pc = "read"
    /\ IF doc = "usage"
       THEN /\ stderr' = "usage"
            /\ exitCode' = 1
            /\ pc' = "exited"
            /\ out' = out
       ELSE IF doc = "badjson" THEN ReportError(out, "Invalid JSON input")
       ELSE IF doc = "missing" THEN ReportError(out, "Input file not found")
       ELSE /\ pc' = "validate"
            /\ UNCHANGED <<out, exitCode, stderr>>
    /\ UNCHANGED <<unit, entry, doc, input, solver, useIter, dofs, calls, sol, result, analysis>>

\* input_data.get(...) on a document that is no JSON object raises
\* AttributeError; an absent key and an empty list are both falsy
MainValidate ==
    /\ pc = "validate"
    /\ IF doc = "nonobject" THEN Uncaught(out)
       ELSE IF Len(input.nodes) = 0 THEN ReportError(out, "No nodes provided in input")
       ELSE IF NumMembers(input) = 0 THEN ReportError(out, "No members provided in input")
       ELSE IF NumSupports(input) = 0 THEN ReportError(out, "No supports provided in input")
       ELSE IF Len(input.loads) = 0 THEN ReportError(out, "No loads provided in input")
       ELSE /\ pc' = "parse"
            /\ UNCHANGED <<out, exitCode, stderr>>
    /\ UNCHANGED <<unit, entry, doc, input, solver, useIter, dofs, calls, sol, result, analysis>>

\* parse_input indexes the required fields (n["id"], m["startNodeId"],
\* s["nodeId"], l["nodeId"], ...): a record lacking one raises KeyError
ParseInputRaises(m) == m.incomplete # "none"

\* use_iterative = input_data.get("config", {}).get("useIterative", False);
\* if len(nodes) > 2000: use_iterative = True
MainUseIterative_NoNodeRule(m) == m.config = "true"
MainUseIterative(m) == m.config = "true" \/ NumNodes(m) > IterativeNodeThreshold

MainParse ==
    /\ pc = "parse"
    /\ LET o5 == ReportProgress(out, "initializing", 5)
           o8 == ReportProgress(o5, "initializing", 8)
       IN  IF ParseInputRaises(input)
           THEN Uncaught(o5) /\ UNCHANGED <<solver, useIter>>
           ELSE IF input.config = "null"       \* None.get(...): AttributeError
           THEN Uncaught(o8) /\ solver' = NewSolver(input) /\ useIter' = useIter
           ELSE /\ out' = o8
                /\ solver' = NewSolver(input)
                /\ useIter' = MainUseIterative(input)
                /\ pc' = "assemble"
                /\ UNCHANGED <<exitCode, stderr>>
    /\ UNCHANGED <<unit, entry, doc, input, dofs, calls, sol, result, analysis>>

MainOutput ==
    /\ pc = "output"
    /\ out' = Append(out, ResultRecord)
    /\ exitCode' = 0
    /\ pc' = "exited"
    /\ UNCHANGED <<unit, entry, doc, input, stderr, solver, useIter, dofs, calls, sol,
                   result, analysis>>

-----------------------------------------------------------------------------
(* StructuralSolver.solve *)

SolveAssemble ==
    /\ pc = "assemble"
    /\ LET o10 == ReportProgress(out, "assembling", 10)
           oK == EmitTicks(o10, input, TickPositions(input))
       IN  out' = ReportProgress(oK, "assembling", 40)
    /\ pc' = "boundary"
    /\ UNCHANGED <<unit, entry, doc, input, exitCode, stderr, solver, useIter, dofs,
                   calls, sol, result, analysis>>

\* "if len(free_dofs) == 0"
NoFreeDofs_Off(d) == FALSE
NoFreeDofs(d) == NumFree(d) = 0

SolveBoundary ==
    /\ pc = "boundary"
    /\ LET o50 == ReportProgress(out, "solving", 50)
           d == IdentifyDofs(input)
       IN  /\ dofs' = d
           /\ IF NoFreeDofs(d)
              THEN ReportError(o50, "Structure is fully constrained - no free DOFs")
              ELSE /\ out' = ReportProgress(o50, "solving", 60)
                   /\ pc' = "linear"
                   /\ UNCHANGED <<exitCode, stderr>>
    /\ UNCHANGED <<unit, entry, doc, input, solver, useIter, calls, sol, result, analysis>>

\* "if use_iterative or len(free_dofs) > 10000"
SelectIterative(use_iterative, nfree) == use_iterative \/ nfree > DirectMaxFreeDofs

\* spla.spsolve(K, F): on a regular matrix the solution; on a singular one
\* SuperLU's failure comes back as a MatrixRankWarning with a vector of NaN
\* (a warning is no exception), or, where warnings are raised as errors, as
\* an exception.
SpsolveOutcomes(stab) ==
    IF stab = "stable" THEN {"solution"}
    ELSE IF stab = "singular" THEN {"nan", "raise"}
    ELSE {"solution", "nan", "raise"}

\* spla.spilu(K.tocsc()): raises on a singular factor
IluOutcomes(stab) ==
    IF stab = "stable" THEN {"ilu"} ELSE {"ilu", "none"}

\* spla.cg(..., tol=1e-8, maxiter=2000): info == 0 (converged), info != 0
\* (maxiter reached or breakdown), or an exception
CgOutcomes(stab) ==
    IF stab = "stable" THEN {"converged", "maxiter"}
    ELSE {"converged", "maxiter", "raise"}

\* as cg without its maxiter argument
CgIterations_NoLimit(outcome) ==
    IF outcome = "converged" THEN {1, MaxIter}
    ELSE IF outcome = "maxiter" THEN {MaxIter + 1}
    ELSE {0}
\* the callback runs once per iteration, at most maxiter times
CgIterations(outcome) ==
    IF outcome = "converged" THEN {1, MaxIter}
    ELSE IF outcome = "maxiter" THEN {MaxIter}
    ELSE {0}

\* What K_ff u - F_f is for the vector u the library returned: exactly zero,
\* zero up to rounding ("roundoff"), within the tolerance of cg ("tol": info
\* == 0 says no more than that), above it ("above"), or NaN.
Residuals(outcome) ==
    IF outcome = "solution" THEN {"zero", "roundoff"}
    ELSE IF outcome = "converged" THEN {"zero", "tol"}
    ELSE IF outcome = "maxiter" THEN {"above"}
    ELSE IF outcome = "nan" THEN {"nan"}
    ELSE {"none"}

\* _solve_direct
SolveDirect ==
    /\ pc = "linear"
    /\ ~SelectIterative(useIter, NumFree(dofs))
    /\ calls' = Append(calls, "direct")
    /\ \E oc \in SpsolveOutcomes(Stability(input)) :
       \E res \in Residuals(oc) :
          /\ sol' = [method |-> "direct-superlu", outcome |-> oc,
                     precond |-> "none", iterations |-> 0, residual |-> res]
          /\ IF oc = "raise"
             THEN ReportError(out, "Direct solver failed")
             ELSE /\ pc' = "post"
                  /\ UNCHANGED <<out, exitCode, stderr>>
    /\ UNCHANGED <<unit, entry, doc, input, solver, useIter, dofs, result, analysis>>

\* _solve_iterative
SolveIterative ==
    /\ pc = "linear"
    /\ SelectIterative(useIter, NumFree(dofs))
    /\ calls' = Append(calls, "iterative")
    /\ \E M \in IluOutcomes(Stability(input)), oc \in CgOutcomes(Stability(input)) :
       \E its \in CgIterations(oc), res \in Residuals(oc) :
          /\ sol' = [method |-> "iterative-cg", outcome |-> oc,
                     precond |-> M, iterations |-> its, residual |-> res]
          /\ IF oc = "raise"
             THEN ReportError(out, "Iterative solver failed")
             ELSE /\ pc' = "post"
                  /\ UNCHANGED <<out, exitCode, stderr>>
    /\ UNCHANGED <<unit, entry, doc, input, solver, useIter, dofs, result, analysis>>

\* the solver_info dict of _solve_direct / _solve_iterative
SolverInfo(s) ==
    IF s.method = "direct-superlu"
    THEN [method |-> s.method, success |-> TRUE]
    ELSE [method |-> s.method, success |-> (s.outcome = "converged"),
          iterations |-> s.iterations, converged |-> (s.outcome = "converged")]

\* the dict solve() returns: u_full has num_dofs entries; `solved` tells
\* whether they are the solution of the reduced system
BuildResult_ReducedLength(sv, s) ==
    [success |-> TRUE,
     ndisp |-> sv.num_dofs - DofsPerNode,
     solved |-> (s.outcome \in {"solution", "converged"}),
     solverInfo |-> SolverInfo(s)]
BuildResult(sv, s) ==
    [success |-> TRUE,
     ndisp |-> sv.num_dofs,
     solved |-> (s.outcome \in {"solution", "converged"}),
     solverInfo |-> SolverInfo(s)]

\* The vectors of the result, for the DOFs of the explicitly listed nodes
\* (DOF d is entry d + 1).

\* u_full = np.zeros(num_dofs); u_full[free_dofs] = u_reduced.  An entry k > 0
\* stands for "the k-th entry of u_reduced", 0 for zero.
RECURSIVE Scatter_ByPosition(_, _, _)
Scatter_ByPosition(u, free_dofs, k) ==
    IF k > Len(free_dofs) THEN u
    ELSE Scatter_ByPosition([u EXCEPT ![k] = k], free_dofs, k + 1)
RECURSIVE Scatter(_, _, _)
Scatter(u, free_dofs, k) ==
    IF k > Len(free_dofs) THEN u
    ELSE Scatter([u EXCEPT ![free_dofs[k] + 1] = k], free_dofs, k + 1)

Zeros(n) == [i \in 1..n |-> 0]

InList(x, list) == \E k \in 1..Len(list) : list[k] = x

\* reactions = K @ u_full - F, every entry of it: at a constrained DOF the
\* support reaction ("R"); at a free DOF, where u_full holds u_reduced and the
\* constrained columns meet zeros, the residual of the reduced system
Reactions(n, d, s) ==
    [i \in 1..n |-> IF InList(i - 1, d.constrained) THEN "R" ELSE s.residual]

\* _build_nodal_displacements: result[node.id] = the six entries from base
RECURSIVE BuildNodalDisplacements(_, _, _, _)
BuildNodalDisplacements(m, u, i, acc) ==
    IF i > Len(m.nodes) THEN acc
    ELSE LET base == (i - 1) * DofsPerNode
             entry_i == [c \in 1..DofsPerNode |-> u[base + c]]
             id == m.nodes[i].id
         IN  BuildNodalDisplacements(m, u, i + 1,
                 [x \in (DOMAIN acc) \cup {id} |-> IF x = id THEN entry_i ELSE acc[x]])

\* _build_nodal_reactions: a node gets an entry if any of its DOFs is in
\* constrained_set; a component at a DOF outside the set is 0
RECURSIVE BuildNodalReactions(_, _, _, _, _)
BuildNodalReactions(m, reactions, constrained_dofs, i, acc) ==
    IF i > Len(m.nodes) THEN acc
    ELSE LET base == (i - 1) * DofsPerNode
             any == \E c \in 1..DofsPerNode : InList(base + c - 1, constrained_dofs)
             entry_i == [c \in 1..DofsPerNode |->
                           IF InList(base + c - 1, constrained_dofs)
                           THEN reactions[base + c] ELSE "zero"]
             id == m.nodes[i].id
         IN  BuildNodalReactions(m, reactions, constrained_dofs, i + 1,
                 IF any
                 THEN [x \in (DOMAIN acc) \cup {id} |-> IF x = id THEN entry_i ELSE acc[x]]
                 ELSE acc)

ResultVectors(m, d, s) ==
    LET n == Len(m.nodes) * DofsPerNode
        u_full == Scatter(Zeros(n), d.free, 1)
        reactions == Reactions(n, d, s)
    IN  [displacements |-> u_full,
         reactions |-> reactions,
         nodalDisplacements |-> BuildNodalDisplacements(m, u_full, 1, <<>>),
         nodalReactions |-> BuildNodalReactions(m, reactions, d.constrained, 1, <<>>)]

\* self.timing: milliseconds between readings of time.perf_counter(); what
\* the clock shows is not a function of the input
Timings == {"t", "t'"}

\* as solve if it emptied self.loads once the reactions are computed
SolvePost_ConsumesLoads ==
    /\ pc = "post"
    /\ LET o85 == ReportProgress(out, "solving", 85)
           o90 == ReportProgress(o85, "postprocessing", 90)
       IN  out' = ReportProgress(o90, "postprocessing", 100)
    /\ \E timing \in Timings :
          result' = BuildResult(solver, sol) @@ ResultVectors(input, dofs, sol)
                        @@ [timing |-> timing]
    /\ pc' = IF entry = "main" THEN "output" ELSE "returned"
    /\ input' = [input EXCEPT !.loads = <<>>]
    /\ UNCHANGED <<unit, entry, doc, exitCode, stderr, solver, useIter, dofs,
                   calls, sol, analysis>>
SolvePost ==
    /\ pc = "post"
    /\ LET o85 == ReportProgress(out, "solving", 85)
           o90 == ReportProgress(o85, "postprocessing", 90)
       IN  out' = ReportProgress(o90, "postprocessing", 100)
    /\ \E timing \in Timings :
          result' = BuildResult(solver, sol) @@ ResultVectors(input, dofs, sol)
                        @@ [timing |-> timing]
    /\ pc' = IF entry = "main" THEN "output" ELSE "returned"
    /\ UNCHANGED <<unit, entry, doc, input, exitCode, stderr, solver, useIter, dofs,
                   calls, sol, analysis>>

-----------------------------------------------------------------------------
(* FEAEngine.analyze *)

\* self.model.analyze(...): PyNite raises on a model it finds unstable
\* ("PyNite will raise an error if unstable"); the message may or may not
\* hold the words the handler looks for
PyniteOutcomes(stab) ==
    IF stab = "stable" THEN {"ok"}
    ELSE IF stab = "singular" THEN {"unstable", "other"}
    ELSE {"ok", "unstable", "other"}

\* nodes with a support other than "free" get a reaction entry
FeaSupported(m) ==
    {i \in 1..Len(m.nodes) : ~Unrestrained(m, i)}

\* _extract_member_results(load_combo, num_points = 100)
NumStations == 100

\* the combination analyze() defines, and the load_combo argument: its
\* default "D", which every caller in the repository uses, or the name of
\* the combination
DefinedCombos == {"1.0D"}
LoadComboArgs == {"D", "1.0D"}

\* What PyNite holds for a member after the analysis.  The values are the
\* library's; three responses stand for them.
Responses == {"unloaded", "sagging", "biaxial"}
Quantities == {"axial", "shear_y", "shear_z", "moment_y", "moment_z",
               "deflection_y", "deflection_z"}

\* member.L()
PyniteLength(resp) ==
    IF resp = "unloaded" THEN 1 ELSE IF resp = "sagging" THEN 4 ELSE 2

\* member.shear / moment / axial / deflection at station k for an analysed
\* combination
PyniteValue(resp, q, k) ==
    IF resp = "sagging"
    THEN IF q = "moment_z" THEN 0 - k                \* negative throughout
         ELSE IF q = "shear_y" THEN 3 - k            \* changes sign
         ELSE IF q = "deflection_y" THEN 0 - k
         ELSE 0
    ELSE IF resp = "biaxial"
    THEN IF q = "moment_y" THEN k
         ELSE IF q = "moment_z" THEN 3 - k
         ELSE IF q = "shear_y" THEN k
         ELSE IF q = "shear_z" THEN 0 - k            \* negative throughout
         ELSE IF q = "axial" THEN 0 - 1
         ELSE IF q = "deflection_z" THEN k
         ELSE 0
    ELSE 0

\* one sample of the loop over x_vals: the call raises for a combination the
\* model does not hold, and "except: vy = vz = 0" puts 0 in its place
Sampled(resp, q, k, load_combo) ==
    IF load_combo \in DefinedCombos THEN PyniteValue(resp, q, k) ELSE 0

\* np.linspace(0, length, num_points), in units of 1 / (num_points - 1)
Linspace_NoEndpoint(length, num_points) ==
    [k \in 1..num_points |-> ((k - 1) * length * (num_points - 1)) \div num_points]
Linspace(length, num_points) ==
    [k \in 1..num_points |-> (k - 1) * length]

Abs(v) == IF v < 0 THEN 0 - v ELSE v
Max2(a, b) == IF a >= b THEN a ELSE b
\* max(list), min(list)
SeqMax(list) == CHOOSE v \in {list[k] : k \in DOMAIN list} : \A k \in DOMAIN list : list[k] <= v
SeqMin(list) == CHOOSE v \in {list[k] : k \in DOMAIN list} : \A k \in DOMAIN list : list[k] >= v

\* the MemberResults of one member
MemberResult(member_id, resp, load_combo) ==
    LET x_vals == Linspace(PyniteLength(resp), NumStations)
        series == [q \in Quantities |->
                     [k \in DOMAIN x_vals |-> Sampled(resp, q, k, load_combo)]]
        max_defl_y == SeqMax([k \in DOMAIN x_vals |-> Abs(series["deflection_y"][k])])
        max_defl_z == SeqMax([k \in DOMAIN x_vals |-> Abs(series["deflection_z"][k])])
    IN  [member_id |-> member_id,
         length |-> PyniteLength(resp),
         x_vals |-> x_vals,
         series |-> series,
         max_shear_y |-> SeqMax(series["shear_y"]),
         min_shear_y |-> SeqMin(series["shear_y"]),
         max_shear_z |-> SeqMax(series["shear_z"]),
         min_shear_z |-> SeqMin(series["shear_z"]),
         max_moment_y |-> SeqMax(series["moment_y"]),
         min_moment_y |-> SeqMin(series["moment_y"]),
         max_moment_z |-> SeqMax(series["moment_z"]),
         min_moment_z |-> SeqMin(series["moment_z"]),
         max_deflection |-> Max2(max_defl_y, max_defl_z)]

\* _extract_member_results: a member whose extraction raises is reported by
\* a printed warning and gets no entry
RECURSIVE ExtractMemberResults(_, _, _, _)
ExtractMemberResults(resp, load_combo, k, results) ==
    IF k > Len(resp) THEN results
    ELSE ExtractMemberResults(resp, load_combo, k + 1,
            IF resp[k] = "raise" THEN results
            ELSE Append(results, MemberResult(k, resp[k], load_combo)))

RECURSIVE ExtractWarnings(_, _, _)
ExtractWarnings(resp, k, o) ==
    IF k > Len(resp) THEN o
    ELSE ExtractWarnings(resp, k + 1,
            IF resp[k] = "raise"
            THEN Append(o, Rec("warning", "Could not extract results for member", k))
            ELSE o)

\* the loop "for mr in member_results" of analyze()
RECURSIVE GlobalMax(_, _, _, _)
GlobalMax(results, k, which, acc) ==
    IF k > Len(results) THEN acc
    ELSE LET mr == results[k]
             next == IF which = "moment"
                     THEN Max2(Max2(acc, Abs(mr.max_moment_z)), Abs(mr.max_moment_y))
                     ELSE IF which = "shear"
                     THEN Max2(Max2(acc, Abs(mr.max_shear_y)), Abs(mr.max_shear_z))
                     ELSE Max2(acc, Abs(mr.max_deflection))
         IN  GlobalMax(results, k + 1, which, next)

\* node.RxnFX.get(load_combo, 0): the reaction PyNite holds for the
\* combination ("R"), or the default
ReactionValue(load_combo) == IF load_combo \in DefinedCombos THEN "R" ELSE "zero"

FeaOutput(m, load_combo, resp) ==
    LET results == ExtractMemberResults(resp, load_combo, 1, <<>>)
    IN  [success |-> TRUE, message |-> "Analysis completed successfully",
         reactions |-> Cardinality(FeaSupported(m)) + m.bulkFixed,
         member_results |-> Len(results),
         is_stable |-> TRUE,
         load_combo |-> load_combo,
         combos |-> DefinedCombos,
         reaction_values |-> ReactionValue(load_combo),
         results |-> results,
         max_displacement |-> GlobalMax(results, 1, "deflection", 0),
         max_moment |-> GlobalMax(results, 1, "moment", 0),
         max_shear |-> GlobalMax(results, 1, "shear", 0)]

FeaFailure(oc) ==
    [success |-> FALSE,
     message |-> IF oc = "unstable" THEN "Structure is unstable" ELSE "Analysis failed",
     reactions |-> 0, member_results |-> 0, is_stable |-> FALSE]

FeaAnalyze ==
    /\ pc = "fea_analyze"
    /\ \E load_combo \in LoadComboArgs, oc \in PyniteOutcomes(Stability(input)) :
          IF oc = "ok"
          THEN \E resp \in [1..NumMembers(input) -> Responses \cup {"raise"}] :
                  /\ analysis' = FeaOutput(input, load_combo, resp)
                  /\ out' = ExtractWarnings(resp, 1, out)
          ELSE /\ analysis' = FeaFailure(oc)
               /\ out' = out
    /\ pc' = "fea_done"
    /\ UNCHANGED <<unit, entry, doc, input, exitCode, stderr, solver, useIter, dofs,
                   calls, sol, result>>

-----------------------------------------------------------------------------
(* The runs *)

\* a run of "python solver.py <input.json>"
InitMain ==
    /\ entry = "main"
    /\ doc \in {"usage", "missing", "badjson", "nonobject", "object"}
    /\ input \in IF doc = "object" THEN Models ELSE {NoInput}
    /\ pc = "read"
    /\ solver = NoSolver
    /\ useIter = FALSE

\* StructuralSolver(nodes, members, supports, loads).solve(use_iterative) on
\* typed objects; config stands for the use_iterative argument ("absent":
\* its default, False)
InitSolve ==
    /\ entry = "solve"
    /\ doc = "none"
    /\ input \in {m \in Models : /\ Len(m.nodes) > 0
                                 /\ m.incomplete = "none"
                                 /\ m.config \in {"true", "absent"}}
    /\ pc = "assemble"
    /\ solver = NewSolver(input)
    /\ useIter = (input.config = "true")

\* FEAEngine.analyze() on an engine built by add_node / add_member: node ids
\* are unique and every member joins two known nodes
InitFea ==
    /\ entry = "fea"
    /\ doc = "none"
    /\ input \in {m \in Models :
                    /\ Len(m.nodes) > 0
                    /\ m.incomplete = "none" /\ m.config = "absent"
                    /\ m.bulk = 0
                    /\ \A i, j \in 1..Len(m.nodes) : m.nodes[i].id = m.nodes[j].id => i = j
                    /\ \A k \in 1..Len(m.members) : MemberAssembled(m, k)}
    /\ pc = "fea_analyze"
    /\ solver = NoSolver
    /\ useIter = FALSE

\* nothing of a run has happened yet
Fresh ==
    /\ out = <<>>
    /\ exitCode = -1
    /\ stderr = ""
    /\ dofs = NoDofs
    /\ calls = <<>>
    /\ sol = NoSol
    /\ result = NoResult
    /\ analysis = NoAnalysis

Init ==
    /\ (InitMain \/ InitSolve \/ InitFea)
    /\ Fresh
    /\ unit = NoUnit

Next ==
    \/ MainReadInput
    \/ MainValidate
    \/ MainParse
    \/ SolveAssemble
    \/ SolveBoundary
    \/ SolveDirect
    \/ SolveIterative
    \/ SolvePost
    \/ MainOutput
    \/ FeaAnalyze

Spec == Init /\ [][Next]_vars

-----------------------------------------------------------------------------
(* Single functions, applied to arguments drawn from bounded sets *)

\* no run of the program: only `unit` changes
NoRun ==
    /\ entry = "unit" /\ doc = "none" /\ input = NoInput /\ pc = "unit"
    /\ solver = NoSolver /\ useIter = FALSE
    /\ Fresh

UnitVars == <<entry, doc, input, pc, out, exitCode, stderr, solver, useIter,
              dofs, calls, sol, result, analysis>>

(* _build_force_vector *)

\* the six components (fx, fy, fz, mx, my, mz) of a nodal load
LoadVectors == {<<1, 0, 0, 0, 0, 0>>, <<2, 3, 0, 0, 0, 1>>, <<0, 0, 5, 0, 0, 0>>}
NodalLoads == [nodeId : NodeIds \cup {UnknownId}, f : LoadVectors]

\* node.index of the solver's nodes: parse_input numbers them from 0
IndexOf(id) == IF id = "n1" THEN 0 ELSE IF id = "n2" THEN 1 ELSE -1

\* F = np.zeros(num_dofs); for load in loads: F[base + c] = load.<c>
RECURSIVE BuildForceVector(_, _, _)
BuildForceVector(F, loads, k) ==
    IF k > Len(loads) THEN F
    ELSE LET load == loads[k]
             index == IndexOf(load.nodeId)
             base == index * DofsPerNode
         IN  IF index < 0                 \* "if not node: continue"
             THEN BuildForceVector(F, loads, k + 1)
             ELSE BuildForceVector(
                     [i \in DOMAIN F |->
                         IF i - 1 \in base..(base + DofsPerNode - 1)
                         THEN load.f[i - base] ELSE F[i]],
                     loads, k + 1)

InitForce ==
    /\ NoRun
    /\ unit \in [fn : {"_build_force_vector"},
                  L1 : SeqUpTo(NodalLoads, MaxLoads),
                  L2 : SeqUpTo(NodalLoads, MaxLoads),
                  F1 : {<<>>}, F2 : {<<>>}, F12 : {<<>>}, returned : {FALSE}]

CallBuildForceVector ==
    /\ unit.fn = "_build_force_vector"
    /\ ~unit.returned
    /\ LET F0 == Zeros(Cardinality(NodeIds) * DofsPerNode)
       IN  unit' = [unit EXCEPT !.F1 = BuildForceVector(F0, unit.L1, 1),
                                !.F2 = BuildForceVector(F0, unit.L2, 1),
                                !.F12 = BuildForceVector(F0, unit.L1 \o unit.L2, 1),
                                !.returned = TRUE]
    /\ UNCHANGED UnitVars

NextForce == CallBuildForceVector

SpecForce == InitForce /\ [][NextForce]_vars

-----------------------------------------------------------------------------
(* SparseAssembler and the element kernel *)

\* Stiffness values are integers in units of 2.5e-16, in which the pruning
\* threshold 1e-15 of add_element reads 4.  Members lie along a coordinate
\* axis, where the rotation matrix has integer entries and T.T @ k_local @ T
\* is computed without rounding.
PruneThreshold == 4
KernelSize == 12

\* direction cosines (cx, cy, cz) of a member
Directions == {<<1, 0, 0>>, <<0, -1, 0>>, <<0, 0, 1>>}
\* E, Iy, Iz, A, G, J and the length L of a member
Sections == {[E |-> 8, Iy |-> 1, Iz |-> 2, A |-> 3, G |-> 4, J |-> 2, L |-> 2],
             [E |-> 8, Iy |-> 1, Iz |-> 1, A |-> 1, G |-> 1, J |-> 2, L |-> 2]}
\* node.index of the two end nodes of a member
AsmIndices == {0, 1, 2}
EndPairs == {<<0, 1>>, <<1, 2>>, <<1, 0>>}

GetLocalStiffnessMatrix(E, Iy, Iz, A, L, G, J) ==
    LET EA_L == (E * A) \div L
        GJ_L == (G * J) \div L
        L2 == L * L
        L3 == L2 * L
        EIz == E * Iz
        EIy == E * Iy
        assigned ==
          { <<0, 0, EA_L>>, <<0, 6, 0 - EA_L>>, <<6, 0, 0 - EA_L>>, <<6, 6, EA_L>>,
            <<3, 3, GJ_L>>, <<3, 9, 0 - GJ_L>>, <<9, 3, 0 - GJ_L>>, <<9, 9, GJ_L>>,
            <<1, 1, (12 * EIz) \div L3>>, <<1, 5, (6 * EIz) \div L2>>,
            <<1, 7, 0 - ((12 * EIz) \div L3)>>, <<1, 11, (6 * EIz) \div L2>>,
            <<5, 1, (6 * EIz) \div L2>>, <<5, 5, (4 * EIz) \div L>>,
            <<5, 7, 0 - ((6 * EIz) \div L2)>>, <<5, 11, (2 * EIz) \div L>>,
            <<7, 1, 0 - ((12 * EIz) \div L3)>>, <<7, 5, 0 - ((6 * EIz) \div L2)>>,
            <<7, 7, (12 * EIz) \div L3>>, <<7, 11, 0 - ((6 * EIz) \div L2)>>,
            <<11, 1, (6 * EIz) \div L2>>, <<11, 5, (2 * EIz) \div L>>,
            <<11, 7, 0 - ((6 * EIz) \div L2)>>, <<11, 11, (4 * EIz) \div L>>,
            <<2, 2, (12 * EIy) \div L3>>, <<2, 4, 0 - ((6 * EIy) \div L2)>>,
            <<2, 8, 0 - ((12 * EIy) \div L3)>>, <<2, 10, 0 - ((6 * EIy) \div L2)>>,
            <<4, 2, 0 - ((6 * EIy) \div L2)>>, <<4, 4, (4 * EIy) \div L>>,
            <<4, 8, (6 * EIy) \div L2>>, <<4, 10, (2 * EIy) \div L>>,
            <<8, 2, 0 - ((12 * EIy) \div L3)>>, <<8, 4, (6 * EIy) \div L2>>,
            <<8, 8, (12 * EIy) \div L3>>, <<8, 10, (6 * EIy) \div L2>>,
            <<10, 2, 0 - ((6 * EIy) \div L2)>>, <<10, 4, (2 * EIy) \div L>>,
            <<10, 8, (6 * EIy) \div L2>>, <<10, 10, (4 * EIy) \div L>> }
    IN  [i \in 0..(KernelSize - 1), j \in 0..(KernelSize - 1) |->
            IF \E a \in assigned : a[1] = i /\ a[2] = j
            THEN (CHOOSE a \in assigned : a[1] = i /\ a[2] = j)[3]
            ELSE 0]

\* get_rotation_matrix with beta = 0; on a coordinate axis D = 1
GetRotationMatrix(c) ==
    LET cx == c[1]
        cy == c[2]
        cz == c[3]
    IN  IF cx = 0 /\ cz = 0
        THEN IF cy > 0
             THEN <<<<0, 1, 0>>, <<-1, 0, 0>>, <<0, 0, 1>>>>
             ELSE <<<<0, -1, 0>>, <<1, 0, 0>>, <<0, 0, 1>>>>
        ELSE LET D == (cx * cx) + (cz * cz)
             IN  <<<<cx, cy, cz>>,
                   <<(0 - (cx * cy)) \div D, D, (0 - (cy * cz)) \div D>>,
                   <<(0 - cz) \div D, 0, cx \div D>>>>

GetTransformationMatrix(R) ==
    [i \in 0..(KernelSize - 1), j \in 0..(KernelSize - 1) |->
        IF i \div 3 = j \div 3 THEN R[(i % 3) + 1][(j % 3) + 1] ELSE 0]

RECURSIVE Dot(_, _, _)
Dot(f, g, k) == IF k < 0 THEN 0 ELSE (f[k] * g[k]) + Dot(f, g, k - 1)

MatMul(A, B) ==
    [i \in 0..(KernelSize - 1), j \in 0..(KernelSize - 1) |->
        Dot([k \in 0..(KernelSize - 1) |-> A[i, k]],
            [k \in 0..(KernelSize - 1) |-> B[k, j]], KernelSize - 1)]

Transpose(A) == [i \in 0..(KernelSize - 1), j \in 0..(KernelSize - 1) |-> A[j, i]]

\* k_global = T.T @ k_local @ T of a member of the given direction and section
KGlobal(c, sec) ==
    LET T == GetTransformationMatrix(GetRotationMatrix(c))
        k_local == GetLocalStiffnessMatrix(sec.E, sec.Iy, sec.Iz, sec.A, sec.L,
                                           sec.G, sec.J)
    IN  MatMul(MatMul(Transpose(T), k_local), T)

KGlobalOf == [c \in Directions, sec \in Sections |-> KGlobal(c, sec)]

GetMemberDofMap(a, b) ==
    [k \in 1..(2 * DofsPerNode) |->
        IF k <= DofsPerNode THEN (a * DofsPerNode) + (k - 1)
        ELSE (b * DofsPerNode) + (k - 1 - DofsPerNode)]

\* the (i, j) pairs of the double loop of add_element, in its order
LoopPairs == [k \in 1..(KernelSize * KernelSize) |->
                 <<(k - 1) \div KernelSize, (k - 1) % KernelSize>>]

\* as add_element with the inner loop started at the diagonal
AddElement_UpperOnly(asm, dof_map, k_global) ==
    LET kept == SelectSeq(LoopPairs,
                    LAMBDA p : p[1] <= p[2] /\ Abs(k_global[p[1], p[2]]) > PruneThreshold)
    IN  [asm EXCEPT
           !.rows = @ \o [k \in 1..Len(kept) |-> dof_map[kept[k][1] + 1]],
           !.cols = @ \o [k \in 1..Len(kept) |-> dof_map[kept[k][2] + 1]],
           !.values = @ \o [k \in 1..Len(kept) |-> k_global[kept[k][1], kept[k][2]]]]
AddElement(asm, dof_map, k_global) ==
    LET kept == SelectSeq(LoopPairs,
                    LAMBDA p : Abs(k_global[p[1], p[2]]) > PruneThreshold)
    IN  [asm EXCEPT
           !.rows = @ \o [k \in 1..Len(kept) |-> dof_map[kept[k][1] + 1]],
           !.cols = @ \o [k \in 1..Len(kept) |-> dof_map[kept[k][2] + 1]],
           !.values = @ \o [k \in 1..Len(kept) |-> k_global[kept[k][1], kept[k][2]]]]

RECURSIVE SumAt(_, _, _, _)
SumAt(asm, r, c, k) ==
    IF k = 0 THEN 0
    ELSE SumAt(asm, r, c, k - 1)
         + (IF asm.rows[k] = r /\ asm.cols[k] = c THEN asm.values[k] ELSE 0)

\* as to_csr if a later triplet replaced an earlier one at the same place
ToCsr_LastWins(asm) ==
    LET stored == {<<asm.rows[k], asm.cols[k]>> : k \in 1..Len(asm.values)}
    IN  [p \in stored |->
            LET last == CHOOSE k \in 1..Len(asm.values) :
                          /\ <<asm.rows[k], asm.cols[k]>> = p
                          /\ \A j \in 1..Len(asm.values) :
                                <<asm.rows[j], asm.cols[j]>> = p => j <= k
            IN  asm.values[last]]
\* the stored entries of coo_matrix(...).tocsr(): one per (row, col) that has
\* a triplet, holding their sum
ToCsr(asm) ==
    LET stored == {<<asm.rows[k], asm.cols[k]>> : k \in 1..Len(asm.values)}
    IN  [p \in stored |-> SumAt(asm, p[1], p[2], Len(asm.values))]

\* density and memorySavedMB are kept as the fractions the code divides
GetStats(asm) ==
    LET nnz == Len(asm.values)
    IN  [size |-> asm.num_dofs, nnz |-> nnz,
         density |-> <<nnz, asm.num_dofs * asm.num_dofs>>]

GetMatrixStats(K, size) ==
    [size |-> size, nnz |-> Cardinality(DOMAIN K),
     density |-> <<Cardinality(DOMAIN K), size * size>>]

NoStats == [size |-> 0]
NoMatrix == [none |-> 0]

InitAssemble ==
    /\ NoRun
    /\ unit = [fn |-> "SparseAssembler",
               asm |-> [num_dofs |-> Cardinality(AsmIndices) * DofsPerNode,
                        rows |-> <<>>, cols |-> <<>>, values |-> <<>>],
               elements |-> <<>>, K |-> NoMatrix, stats |-> NoStats,
               matrixStats |-> NoStats]

\* one pass of the member loop of _assemble_global_stiffness
AssembleMember ==
    /\ unit.fn = "SparseAssembler"
    /\ unit.K = NoMatrix
    /\ Len(unit.elements) < MaxElements
    /\ \E ends \in EndPairs, c \in Directions, sec \in Sections :
          unit' = [unit EXCEPT
                     !.asm = AddElement(@, GetMemberDofMap(ends[1], ends[2]),
                                        KGlobalOf[c, sec]),
                     !.elements = Append(@, [dof_map |-> GetMemberDofMap(ends[1], ends[2]),
                                             k_global |-> <<c, sec>>])]
    /\ UNCHANGED UnitVars

CallToCsr ==
    /\ unit.fn = "SparseAssembler"
    /\ unit.K = NoMatrix
    /\ unit' = [unit EXCEPT !.K = ToCsr(unit.asm)]
    /\ UNCHANGED UnitVars

CallGetStats ==
    /\ unit.fn = "SparseAssembler"
    /\ unit.K # NoMatrix
    /\ unit.stats = NoStats
    /\ unit' = [unit EXCEPT !.stats = GetStats(unit.asm)]
    /\ UNCHANGED UnitVars

CallGetMatrixStats ==
    /\ unit.fn = "SparseAssembler"
    /\ unit.stats # NoStats
    /\ unit.matrixStats = NoStats
    /\ unit' = [unit EXCEPT !.matrixStats = GetMatrixStats(unit.K, unit.asm.num_dofs)]
    /\ UNCHANGED UnitVars

NextAssemble == AssembleMember \/ CallToCsr \/ CallGetStats \/ CallGetMatrixStats

SpecAssemble == InitAssemble /\ [][NextAssemble]_vars

-----------------------------------------------------------------------------
(* The member loop of _assemble_global_stiffness on long member lists *)

\* self.members as runs of like members: `n` members in a row that are all
\* assembled ("ok"), all name an id that is no key of self.nodes ("unknown"),
\* or all join two nodes less than 1e-10 apart ("short")
RunLengths == {1, TickEvery - 1, TickEvery}
MemberKinds == {"ok", "unknown", "short"}
Runs == [n : RunLengths, kind : MemberKinds]

RECURSIVE TotalMembers(_)
TotalMembers(runs) == IF runs = <<>> THEN 0 ELSE Head(runs).n + TotalMembers(Tail(runs))

\* the records the loop prints while it passes the members first + 1 .. last
\* of one run out of `total`
RunRecords(kind, first, last, total) ==
    IF kind # "ok" THEN <<>>                    \* "continue", nothing printed
    ELSE LET at == SelectSeq([j \in 1..(total \div TickEvery) |-> j * TickEvery],
                             LAMBDA q : q > first /\ q <= last)
         IN  [k \in 1..Len(at) |->
                 Rec("progress", "assembling", 10 + ((30 * at[k]) \div total))]

InitLoop ==
    /\ NoRun
    /\ unit \in [fn : {"_assemble_global_stiffness"},
                  members : SeqUpTo(Runs, MaxRuns),
                  next : {1}, i : {0}, elements : {0}, out : {<<>>},
                  returned : {FALSE}]

\* the loop body over the members of the next run
LoopRun ==
    /\ unit.fn = "_assemble_global_stiffness"
    /\ unit.next <= Len(unit.members)
    /\ LET run == unit.members[unit.next]
       IN  unit' = [unit EXCEPT
                      !.next = @ + 1,
                      !.i = @ + run.n,
                      !.elements = IF run.kind = "ok" THEN @ + run.n ELSE @,
                      !.out = @ \o RunRecords(run.kind, unit.i, unit.i + run.n,
                                              TotalMembers(unit.members))]
    /\ UNCHANGED UnitVars

\* "return assembler.to_csr()"
LoopReturn ==
    /\ unit.fn = "_assemble_global_stiffness"
    /\ unit.next > Len(unit.members)
    /\ ~unit.returned
    /\ unit' = [unit EXCEPT !.returned = TRUE]
    /\ UNCHANGED UnitVars

NextLoop == LoopRun \/ LoopReturn

SpecLoop == InitLoop /\ [][NextLoop]_vars

-----------------------------------------------------------------------------
(* get_support_tuple and FEAEngine.add_node *)

\* the support argument of add_node: a preset name in some spelling, a name
\* the table does not hold, or None
SupportArgs == {"fixed", "FIXED", "pinned", "pin", "hinge", "roller", "roller_x",
                "roller_y", "Roller_Z", "roller_z", "free", "Free", "spring", "None"}

\* str.lower() on these arguments
Lower(str) ==
    IF str = "FIXED" THEN "fixed"
    ELSE IF str = "Roller_Z" THEN "roller_z"
    ELSE IF str = "Free" THEN "free"
    ELSE str

\* support_map.get(support_type.lower(), (False, ...)): (Dx, Dy, Dz, Rx, Ry, Rz)
GetSupportTuple_RollerSwapped(support_type) ==
    LET t == Lower(support_type)
    IN  IF t = "fixed" THEN <<TRUE, TRUE, TRUE, TRUE, TRUE, TRUE>>
        ELSE IF t \in {"pinned", "pin", "hinge"} THEN <<TRUE, TRUE, TRUE, FALSE, FALSE, FALSE>>
        ELSE IF t \in {"roller", "roller_x"} THEN <<FALSE, TRUE, TRUE, FALSE, FALSE, FALSE>>
        ELSE IF t = "roller_y" THEN <<TRUE, TRUE, FALSE, FALSE, FALSE, FALSE>>
        ELSE IF t = "roller_z" THEN <<TRUE, FALSE, TRUE, FALSE, FALSE, FALSE>>
        ELSE <<FALSE, FALSE, FALSE, FALSE, FALSE, FALSE>>
GetSupportTuple(support_type) ==
    LET t == Lower(support_type)
    IN  IF t = "fixed" THEN <<TRUE, TRUE, TRUE, TRUE, TRUE, TRUE>>
        ELSE IF t \in {"pinned", "pin", "hinge"} THEN <<TRUE, TRUE, TRUE, FALSE, FALSE, FALSE>>
        ELSE IF t \in {"roller", "roller_x"} THEN <<FALSE, TRUE, TRUE, FALSE, FALSE, FALSE>>
        ELSE IF t = "roller_y" THEN <<TRUE, FALSE, TRUE, FALSE, FALSE, FALSE>>
        ELSE IF t = "roller_z" THEN <<TRUE, TRUE, FALSE, FALSE, FALSE, FALSE>>
        ELSE <<FALSE, FALSE, FALSE, FALSE, FALSE, FALSE>>

\* a new FEAEngine: self.nodes, and of the PyNite model its nodes and the
\* supports defined on them; `last` is the add_node call made last
NoCall == [node_id |-> "none", support |-> "None", raised |-> FALSE]
InitEngine ==
    /\ NoRun
    /\ unit = [fn |-> "add_node", nodes |-> <<>>, model_nodes |-> {},
               supports |-> <<>>, last |-> NoCall]

\* FEModel3D.add_node on a name the model holds already: it raises, or (in
\* older releases) replaces the node
PyniteAddNode(model_nodes, node_id) ==
    IF node_id \in model_nodes THEN {"raise", "replace"} ELSE {"added"}

Put(f, key, value) == [x \in (DOMAIN f) \cup {key} |-> IF x = key THEN value ELSE f[x]]

AddNode ==
    /\ unit.fn = "add_node"
    /\ Cardinality(DOMAIN unit.nodes) < MaxNodes
    /\ ~unit.last.raised
    /\ \E node_id \in NodeIds \cup {UnknownId}, support \in SupportArgs :
       \E oc \in PyniteAddNode(unit.model_nodes, node_id) :
          unit' = [unit EXCEPT
                     !.nodes = Put(@, node_id, support),
                     !.model_nodes = IF oc = "raise" THEN @ ELSE @ \cup {node_id},
                     \* the restraints are kept on the model's node object: a
                     \* replaced node starts without any
                     !.supports =
                        IF oc = "raise" THEN @
                        ELSE IF support # "None" /\ Lower(support) # "free"
                        THEN Put(@, node_id, GetSupportTuple(support))
                        ELSE [x \in (DOMAIN @) \ {node_id} |-> @[x]],
                     !.last = [node_id |-> node_id, support |-> support,
                               raised |-> (oc = "raise")]]
    /\ UNCHANGED UnitVars

NextEngine == AddNode

SpecEngine == InitEngine /\ [][NextEngine]_vars

-----------------------------------------------------------------------------
(* Two solves of one input under the direct solver, one after the other *)

NoFirst == [out |-> <<>>, exitCode |-> -1, dofs |-> NoDofs, sol |-> NoSol,
            result |-> NoResult]

InitTwice ==
    /\ entry = "solve"
    /\ doc = "none"
    /\ input \in {m \in Models : /\ Len(m.nodes) > 0
                                 /\ m.incomplete = "none"
                                 /\ m.config = "absent"
                                 /\ m.bulkFixed = 0}
    /\ pc = "assemble"
    /\ solver = NewSolver(input)
    /\ useIter = FALSE
    /\ Fresh
    /\ unit = [fn |-> "solve", runs |-> 0, first |-> NoFirst]

\* spsolve is a function of its arguments: handed the same system again, it
\* returns what it returned before
SolveDirectAgain ==
    /\ SolveDirect
    /\ unit.runs = 1 => sol' = unit.first.sol

\* the first solve is over; what it printed and returned is kept, and the
\* same input is solved afresh
SolveAgain ==
    /\ unit.fn = "solve"
    /\ unit.runs = 0
    /\ pc \in {"returned", "exited"}
    /\ unit' = [unit EXCEPT !.runs = 1,
                            !.first = [out |-> out, exitCode |-> exitCode,
                                       dofs |-> dofs, sol |-> sol,
                                       result |-> result]]
    /\ pc' = "assemble"
    /\ out' = <<>>
    /\ exitCode' = -1
    /\ dofs' = NoDofs
    /\ calls' = <<>>
    /\ sol' = NoSol
    /\ result' = NoResult
    /\ UNCHANGED <<entry, doc, input, stderr, solver, useIter, analysis>>

NextTwice ==
    \/ SolveAssemble
    \/ SolveBoundary
    \/ SolveDirectAgain
    \/ SolvePost
    \/ SolveAgain

SpecTwice == InitTwice /\ [][NextTwice]_vars

-----------------------------------------------------------------------------
(* Vocabulary of the properties *)

Terminal == {"exited", "returned", "fea_done"}
PastLinearSolve == {"post", "output", "returned"}

Last(o) == o[Len(o)]
EndsWithError(o) == Len(o) > 0 /\ Last(o).type = "error"
HasRecord(o, type) == \E i \in 1..Len(o) : o[i].type = type
HasStage(o, stage) == \E i \in 1..Len(o) : o[i].type = "progress" /\ o[i].tag = stage

\* progress records, then exactly one terminal record, then nothing
WellFormedStream(o) ==
    /\ Len(o) > 0
    /\ Last(o).type \in {"result", "error"}
    /\ \A i \in 1..(Len(o) - 1) : o[i].type = "progress"

\* a model whose records are all complete
CleanModel(m) == m.incomplete = "none" /\ m.config # "null"

NoDofRestrained(m) ==
    /\ Len(m.nodes) > 0
    /\ m.bulkFixed = 0
    /\ \A i \in 1..Len(m.nodes) : Unrestrained(m, i)

HasUnknownRef(m) ==
    \E k \in 1..Len(m.members) :
        NodeOf(m, m.members[k].start) = 0 \/ NodeOf(m, m.members[k].end) = 0

HasDuplicateIds(m) ==
    \E i, j \in 1..Len(m.nodes) : i # j /\ m.nodes[i].id = m.nodes[j].id

\* consecutive nodes joined by members, the first node restrained in all six
\* DOFs, one nodal load (the models of test_solver.py)
IsChain(m) ==
    /\ CleanModel(m)
    /\ Len(m.nodes) > 0
    /\ ~HasDuplicateIds(m)
    /\ Len(m.members) = Len(m.nodes) - 1
    /\ \A k \in 1..Len(m.members) :
          m.members[k] = [start |-> m.nodes[k].id, end |-> m.nodes[k + 1].id]
    /\ FullyFixed(m, 1)
    /\ Len(m.loads) = 1

-----------------------------------------------------------------------------
(* C1: every run of main that was given a document ends with a stream of    *)
(* progress records followed by exactly one terminal record (a result or an *)
(* error), whatever the document.                                           *)
C1_OneTerminalRecord ==
    (entry = "main" /\ doc # "usage" /\ pc = "exited") => WellFormedStream(out)

(* C2: once DOF partitioning has yielded an empty free-DOF set, the run has *)
(* halted on the fully-constrained error: no linear solver was invoked and  *)
(* no result exists.                                                        *)
C2_FullyConstrainedHalts ==
    (dofs # NoDofs /\ NumFree(dofs) = 0) =>
        /\ pc = "exited"
        /\ exitCode = 1
        /\ Last(out) = ErrorRecord("Structure is fully constrained - no free DOFs")
        /\ ~HasRecord(out, "result")
        /\ calls = <<>>
        /\ sol = NoSol
        /\ result = NoResult

C2_Witness ==
    /\ entry = "main"
    /\ dofs # NoDofs
    /\ NumFree(dofs) = 0
    /\ NumConstrained(dofs) = solver.num_dofs
    /\ pc = "exited"

(* C3: a run whose conjugate-gradient solve did not converge ends on an     *)
(* error record, and no result (success = true) is produced for it.         *)
C3_NonConvergentHalts ==
    (/\ entry = "main"
     /\ sol.method = "iterative-cg" /\ sol.outcome = "maxiter"
     /\ pc = "exited") =>
        /\ EndsWithError(out)
        /\ ~HasRecord(out, "result")
        /\ result = NoResult

(* C4: a run whose direct factorization failed on the reduced system ends   *)
(* on an error record: no result is produced, and the iterative solver was  *)
(* not invoked.                                                             *)
C4_FactorizationFailureHalts ==
    (/\ entry = "main"
     /\ sol.method = "direct-superlu" /\ sol.outcome \in {"nan", "raise"}
     /\ pc = "exited") =>
        /\ EndsWithError(out)
        /\ ~HasRecord(out, "result")
        /\ result = NoResult
        /\ calls = <<"direct">>

(* C5: in a run of main the direct solver runs, and solverInfo.method is    *)
(* "direct-superlu", exactly when there are at most 10000 free DOFs, the    *)
(* useIterative flag is not set and there are at most 2000 nodes; otherwise *)
(* conjugate gradient runs and the method is "iterative-cg".  A solve       *)
(* invokes exactly one of the two (a direct call of solve() decides on its  *)
(* argument and the free-DOF count).                                        *)
C5_SolverSelection ==
    /\ Len(calls) <= 1
    /\ pc \in PastLinearSolve => Len(calls) = 1
    /\ (entry = "main" /\ calls # <<>>) =>
          LET direct == /\ NumFree(dofs) <= DirectMaxFreeDofs
                        /\ input.config # "true"
                        /\ NumNodes(input) <= IterativeNodeThreshold
          IN  /\ calls[1] = IF direct THEN "direct" ELSE "iterative"
              /\ result # NoResult =>
                    result.solverInfo.method =
                        IF direct THEN "direct-superlu" ELSE "iterative-cg"
    /\ (entry = "solve" /\ calls # <<>>) =>
          (calls[1] = "direct" <=>
              (NumFree(dofs) <= DirectMaxFreeDofs /\ input.config # "true"))

\* more than 2000 nodes, at most 10000 free DOFs, no flag: main forces CG
C5_Witness ==
    /\ entry = "main"
    /\ NumNodes(input) > IterativeNodeThreshold
    /\ dofs # NoDofs
    /\ NumFree(dofs) <= DirectMaxFreeDofs
    /\ input.config = "absent"
    /\ calls = <<"iterative">>
    /\ result # NoResult
    /\ result.solverInfo.method = "iterative-cg"

(* C6: a model in which no DOF is restrained never yields a successful      *)
(* result: through main, through a direct call of solve() and through       *)
(* FEAEngine.analyze the run ends in an error, with no displacements,       *)
(* reactions or member results.                                             *)
C6_UnrestrainedNeverSucceeds ==
    (/\ NoDofRestrained(input) /\ CleanModel(input)
     /\ NumMembers(input) > 0
     /\ \A k \in 1..Len(input.members) : MemberAssembled(input, k)
     /\ pc \in Terminal) =>
        /\ result = NoResult
        /\ ~analysis.success
        /\ entry # "fea" => EndsWithError(out)
        /\ entry = "fea" => analysis.reactions = 0 /\ analysis.member_results = 0

(* C7: a run of main on a well-posed chain model of N nodes, N among the    *)
(* sizes the tests use, ends with exit code 0 and a result record with      *)
(* success = true and 6N displacements; and exit code 0 is only ever        *)
(* reached with such a result record.                                       *)
C7_ChainSucceeds ==
    /\ (/\ entry = "main" /\ doc = "object"
        /\ IsChain(input) /\ NumNodes(input) \in TestSizes
        /\ pc = "exited") =>
            /\ exitCode = 0
            /\ WellFormedStream(out)
            /\ Last(out) = ResultRecord
            /\ result.success
            /\ result.ndisp = DofsPerNode * NumNodes(input)
    /\ exitCode = 0 =>
            /\ entry = "main"
            /\ Last(out) = ResultRecord
            /\ result.success
            /\ result.ndisp = DofsPerNode * NumNodes(input)

\* the 2000-node chain, which the free-DOF count sends to conjugate gradient
C7_Witness ==
    /\ entry = "main"
    /\ IsChain(input)
    /\ NumNodes(input) = IterativeNodeThreshold
    /\ pc = "exited"
    /\ exitCode = 0
    /\ calls = <<"iterative">>

(* C8: invalid input (a document that is not JSON, or a record missing a    *)
(* required field) ends the run on an error record, before assembly starts. *)
C8_InvalidInputReported ==
    (/\ entry = "main"
     /\ doc = "badjson" \/ (doc = "object" /\ input.incomplete # "none")
     /\ pc = "exited") =>
        /\ EndsWithError(out)
        /\ ~HasStage(out, "assembling")

(* C9: a run of main on a model with a member whose start or end node id    *)
(* resolves to no node ends on an error: no linear system is solved and no  *)
(* result is produced (stated for models that are well posed without the    *)
(* dangling member).                                                        *)
C9_UnknownNodeHalts ==
    (/\ entry = "main" /\ doc = "object" /\ CleanModel(input)
     /\ HasUnknownRef(input) /\ Stability(input) = "stable"
     /\ pc = "exited") =>
        /\ EndsWithError(out)
        /\ calls = <<>>
        /\ result = NoResult

(* C10: a run of main on a model with two nodes of one id ends on an error: *)
(* it never gets past ingest into assembly and no result is produced        *)
(* (stated for models that are well posed apart from the repeated id).      *)
C10_DuplicateIdHalts ==
    (/\ entry = "main" /\ doc = "object" /\ CleanModel(input)
     /\ HasDuplicateIds(input) /\ ~HasUnknownRef(input)
     /\ Stability(input) = "stable"
     /\ pc = "exited") =>
        /\ EndsWithError(out)
        /\ ~HasStage(out, "assembling")
        /\ result = NoResult

(* C11: in a result whose linear solve succeeded, a reported reaction value  *)
(* is nonzero (beyond rounding) only at a constrained DOF: in the flat       *)
(* reactions vector, and in the per-node reactions, where a node with no     *)
(* constrained DOF has no entry.                                             *)
C11_ReactionsOnlyAtConstrained ==
    (/\ entry = "main" /\ pc = "exited" /\ result # NoResult
     /\ sol.outcome \in {"solution", "converged"}) =>
        /\ \A i \in 1..Len(result.reactions) :
              result.reactions[i] \notin {"zero", "roundoff"} =>
                  InList(i - 1, dofs.constrained)
        /\ \A i \in 1..Len(input.nodes) :
              LET base == (i - 1) * DofsPerNode
                  id == input.nodes[i].id
              IN  IF \E c \in 1..DofsPerNode : InList(base + c - 1, dofs.constrained)
                  THEN /\ id \in DOMAIN result.nodalReactions
                       /\ \A c \in 1..DofsPerNode :
                             result.nodalReactions[id][c] # "zero" =>
                                 InList(base + c - 1, dofs.constrained)
                  ELSE id \notin DOMAIN result.nodalReactions

C13_ForceSuperposition ==
    (unit.fn = "_build_force_vector" /\ unit.returned) =>
        \A i \in DOMAIN unit.F12 : unit.F12[i] = unit.F1[i] + unit.F2[i]

(* C14: two solves of the same well-posed input under the direct solver      *)
(* print the same sequence of records and return the same result, field by   *)
(* field.                                                                    *)
C14_Deterministic ==
    (/\ unit.fn = "solve" /\ unit.runs = 1
     /\ Stability(input) = "stable"
     /\ pc \in {"returned", "exited"}) =>
        /\ out = unit.first.out
        /\ exitCode = unit.first.exitCode
        /\ result = unit.first.result

(* C15: a successful FEAEngine.analyze extracts reactions and member results *)
(* for a combination that was defined in the model and analysed, so that no  *)
(* reported value is the default substituted for a missing combination.      *)
C15_ExtractsAnalysedCombo ==
    (/\ entry = "fea" /\ pc = "fea_done" /\ analysis.success
     /\ Stability(input) = "stable" /\ NumMembers(input) > 0
     /\ ~HasRecord(out, "warning")) =>
        /\ analysis.load_combo \in analysis.combos
        /\ analysis.reaction_values = "R"
        /\ \A i \in 1..Len(analysis.results) :
              LET mr == analysis.results[i]
              IN  \E resp \in Responses :
                     \A q \in Quantities, k \in 1..NumStations :
                         mr.series[q][k] = PyniteValue(resp, q, k)

\* the largest absolute value among the samples of the quantities qs, over
\* all members and stations (0 when there is none)
LargestMagnitude(results, qs) ==
    LET mags == {Abs(results[i].series[q][k]) :
                    i \in 1..Len(results), q \in qs, k \in 1..NumStations}
    IN  IF mags = {} THEN 0 ELSE CHOOSE v \in mags : \A w \in mags : w <= v

(* C16: max_moment is the largest absolute value of any sampled M_y or M_z   *)
(* over all members and stations, and max_shear that of any sampled V_y or   *)
(* V_z, also for a diagram that is negative throughout.                      *)
C16_GlobalAggregates ==
    (/\ entry = "fea" /\ pc = "fea_done" /\ analysis.success
     /\ Stability(input) = "stable"
     /\ ~HasRecord(out, "warning")) =>
        /\ analysis.max_moment =
              LargestMagnitude(analysis.results, {"moment_y", "moment_z"})
        /\ analysis.max_shear =
              LargestMagnitude(analysis.results, {"shear_y", "shear_z"})

C18_FailedMemberKept ==
    (/\ entry = "fea" /\ pc = "fea_done" /\ analysis # NoAnalysis
     /\ Stability(input) = "stable"
     /\ HasRecord(out, "warning")) =>
        /\ analysis.success
        /\ analysis.member_results = NumMembers(input)
        /\ \A w \in 1..Len(out) :
              \E i \in 1..Len(analysis.results) :
                  /\ analysis.results[i].member_id = out[w].pct
                  /\ \A q \in Quantities, k \in 1..NumStations :
                        analysis.results[i].series[q][k] = 0

\* the restraint flags (ux, uy, uz, rx, ry, rz) with exactly the DOFs in S set
FlagsOf(S) == [d \in 1..DofsPerNode |-> d \in S]
Translations == {1, 2, 3}
AxisOf(name) == IF name = "roller_x" THEN 1 ELSE IF name = "roller_y" THEN 2 ELSE 3

(* C19: the support presets map to the restraint flags as: fixed = all six;  *)
(* pinned = the three translations; roller along an axis = the two           *)
(* translations orthogonal to it; free = none; and a node added without a    *)
(* support has no restraint defined on it.                                   *)
C19_SupportPresets ==
    /\ GetSupportTuple("fixed") = FlagsOf(1..DofsPerNode)
    /\ GetSupportTuple("pinned") = FlagsOf(Translations)
    /\ \A r \in {"roller_x", "roller_y", "roller_z"} :
          GetSupportTuple(r) = FlagsOf(Translations \ {AxisOf(r)})
    /\ GetSupportTuple("free") = FlagsOf({})
    /\ (unit.fn = "add_node" /\ unit.last # NoCall /\ ~unit.last.raised) =>
          LET id == unit.last.node_id
              t == Lower(unit.last.support)
          IN  /\ unit.last.support = "None" => id \notin DOMAIN unit.supports
              /\ t = "free" => id \notin DOMAIN unit.supports
              /\ t = "fixed" => unit.supports[id] = FlagsOf(1..DofsPerNode)
              /\ t = "pinned" => unit.supports[id] = FlagsOf(Translations)
              /\ t \in {"roller_x", "roller_y", "roller_z"} =>
                    unit.supports[id] = FlagsOf(Translations \ {AxisOf(t)})

\* a roller along y was added after a node without support
C19_Witness ==
    /\ unit.fn = "add_node"
    /\ unit.last.support = "roller_y" /\ ~unit.last.raised
    /\ unit.last.node_id \in DOMAIN unit.supports
    /\ \E id \in DOMAIN unit.nodes :
          unit.nodes[id] = "None" /\ id \notin DOMAIN unit.supports

\* the stages in pipeline order, with the percent range of each; the parse
\* stage carries the label "initializing"
StageIndex(stage) ==
    IF stage = "initializing" THEN 1
    ELSE IF stage = "assembling" THEN 2
    ELSE IF stage = "boundary-conditions" THEN 3
    ELSE IF stage = "solving" THEN 4
    ELSE IF stage = "postprocessing" THEN 5
    ELSE 0
StageRange(stage) ==
    IF stage = "initializing" THEN 5..10
    ELSE IF stage = "assembling" THEN 10..40
    ELSE IF stage = "boundary-conditions" THEN 50..50
    ELSE IF stage = "solving" THEN 60..85
    ELSE IF stage = "postprocessing" THEN 90..100
    ELSE {}

(* C20: the progress records of a run come in pipeline order, each labelled  *)
(* with its own stage; percent values never decrease along the stream and    *)
(* stay within the range of the stage the record is labelled with.           *)
C20_ProgressOrder ==
    entry = "main" =>
        \A i \in 1..Len(out) :
            out[i].type = "progress" =>
                /\ out[i].pct \in StageRange(out[i].tag)
                /\ (i > 1 /\ out[i - 1].type = "progress") =>
                      /\ out[i - 1].pct <= out[i].pct
                      /\ StageIndex(out[i - 1].tag) <= StageIndex(out[i].tag)

Ascending(list) == \A k \in 1..(Len(list) - 1) : list[k] < list[k + 1]
ToSet(list) == {list[k] : k \in 1..Len(list)}

(* C21: free_dofs and constrained_dofs are disjoint, together they are       *)
(* exactly {0, ..., 6N - 1}, a DOF is constrained if and only if the support *)
(* record of its node has that DOF's flag set, and both lists are strictly   *)
(* ascending.  The lists are looked at when _identify_dofs has returned      *)
(* them; nothing changes them afterwards.                                    *)
C21_DofPartition ==
    (dofs # NoDofs /\ pc \in {"linear", "exited"}) =>
        LET n == Len(input.nodes) * DofsPerNode
        IN  /\ ToSet(dofs.free) \cap ToSet(dofs.constrained) = {}
            /\ ToSet(dofs.free) \cup ToSet(dofs.constrained) = 0..(n - 1)
            /\ NumFree(dofs) + NumConstrained(dofs) = DofsPerNode * NumNodes(input)
            /\ Ascending(dofs.free)
            /\ Ascending(dofs.constrained)
            /\ \A d \in 0..(n - 1) :
                  LET i == (d \div DofsPerNode) + 1
                      c == (d % DofsPerNode) + 1
                      recs == {k \in 1..Len(input.supports) :
                                  input.supports[k].nodeId = input.nodes[i].id}
                  IN  d \in ToSet(dofs.constrained) <=>
                         \E k \in recs : /\ input.supports[k].flags[c]
                                          /\ \A j \in recs : j <= k

\* a node restrained in part next to a node without support
C21_Witness ==
    /\ dofs # NoDofs
    /\ pc = "linear"
    /\ Len(input.nodes) > 1
    /\ \E i \in 1..Len(input.nodes) : SupportOf(input, input.nodes[i].id) = 0
    /\ \E i \in 1..Len(input.nodes) :
          LET k == SupportOf(input, input.nodes[i].id)
          IN  k # 0 /\ input.supports[k].flags = Pinned
    /\ Len(dofs.constrained) > 0
    /\ Len(dofs.free) > Len(dofs.constrained)

\* the entry of a sparse matrix at (r, c): zero where nothing is stored
ValueAt(K, r, c) == IF <<r, c>> \in DOMAIN K THEN K[<<r, c>>] ELSE 0

\* what the k-th assembled element contributes at (r, c): the entry of its
\* kernel that its DOF map sends there, unless pruning dropped it
Contribution(k, r, c) ==
    LET e == unit.elements[k]
        kg == KGlobalOf[e.k_global[1], e.k_global[2]]
        is == {i \in 0..(KernelSize - 1) : e.dof_map[i + 1] = r}
        js == {j \in 0..(KernelSize - 1) : e.dof_map[j + 1] = c}
    IN  IF is = {} \/ js = {} THEN 0
        ELSE LET i == CHOOSE q \in is : TRUE
                 j == CHOOSE q \in js : TRUE
             IN  IF Abs(kg[i, j]) > PruneThreshold THEN kg[i, j] ELSE 0

RECURSIVE Contributions(_, _, _)
Contributions(k, r, c) ==
    IF k = 0 THEN 0 ELSE Contributions(k - 1, r, c) + Contribution(k, r, c)

Assembled == unit.fn = "SparseAssembler" /\ unit.K # NoMatrix

(* C22: after any sequence of add_element calls, the matrix returned by      *)
(* to_csr holds at every (i, j) the sum of all the values appended for       *)
(* (i, j) -- contributions accumulate, a later one does not replace an       *)
(* earlier one -- and zero where nothing was appended.                       *)
C22_DuplicatesSummed ==
    Assembled =>
        \A r, c \in 0..(unit.asm.num_dofs - 1) :
            ValueAt(unit.K, r, c) = Contributions(Len(unit.elements), r, c)

\* two members meeting at a node have both deposited at one place
C22_Witness ==
    /\ Assembled
    /\ \E j, k \in 1..Len(unit.asm.values) :
          /\ j < k
          /\ unit.asm.rows[j] = unit.asm.rows[k]
          /\ unit.asm.cols[j] = unit.asm.cols[k]
          /\ unit.K[<<unit.asm.rows[k], unit.asm.cols[k]>>] # unit.asm.values[k]

C27_StatsAgree ==
    (Assembled /\ unit.matrixStats # NoStats) =>
        /\ unit.stats.nnz = Cardinality(DOMAIN unit.K)
        /\ unit.stats.nnz = unit.matrixStats.nnz
        /\ unit.stats.size = unit.asm.num_dofs
        /\ unit.matrixStats.size = unit.asm.num_dofs
        /\ unit.stats.density = <<unit.stats.nnz, unit.stats.size * unit.stats.size>>
        /\ unit.matrixStats.density = unit.stats.density

\* as parse_input if enumerate counted from 1
ParseNodes_FromOne(m) == [k \in 1..Len(m.nodes) |-> [id |-> m.nodes[k].id, index |-> k]]
\* parse_input: "for i, n in enumerate(data.get("nodes", []))" gives the
\* node read i-th (from 0) index = i
ParseNodes(m) == [k \in 1..Len(m.nodes) |-> [id |-> m.nodes[k].id, index |-> k - 1]]

\* the DOF map _assemble_global_stiffness passes on for the k-th listed
\* member, both of whose end ids are keys of self.nodes
MemberDofMap(m, k) ==
    GetMemberDofMap(ParseNodes(m)[NodeOf(m, m.members[k].start)].index,
                    ParseNodes(m)[NodeOf(m, m.members[k].end)].index)

(* C24: after ingest the node indices are exactly 0 .. N-1 in input order,   *)
(* and the 12-entry DOF map of every member is                               *)
(* [6a, ..., 6a+5, 6b, ..., 6b+5] for the indices a and b of its end nodes,  *)
(* every entry inside [0, 6N).                                               *)
C24_Indexing ==
    (solver # NoSolver /\ pc = "assemble") =>
        LET ns == ParseNodes(input)
        IN  /\ \A k \in 1..Len(ns) : ns[k].index = k - 1
            /\ {ns[k].index : k \in 1..Len(ns)} = 0..(Len(input.nodes) - 1)
            /\ solver.num_dofs = DofsPerNode * solver.num_nodes
            /\ \A k \in 1..Len(input.members) :
                  LET a == NodeOf(input, input.members[k].start)
                      b == NodeOf(input, input.members[k].end)
                      map == MemberDofMap(input, k)
                  IN  (a # 0 /\ b # 0) =>
                         /\ Len(map) = 2 * DofsPerNode
                         /\ \A i \in 1..DofsPerNode :
                               /\ map[i] = (DofsPerNode * (a - 1)) + (i - 1)
                               /\ map[DofsPerNode + i] = (DofsPerNode * (b - 1)) + (i - 1)
                         /\ \A i \in 1..Len(map) : map[i] >= 0 /\ map[i] < solver.num_dofs

\* a member that joins the first node read to the last one
C24_Witness ==
    /\ solver # NoSolver
    /\ pc = "assemble"
    /\ \E k \in 1..Len(input.members) :
          /\ NodeOf(input, input.members[k].start) = 1
          /\ NodeOf(input, input.members[k].end) = Len(input.nodes)
          /\ Len(input.nodes) > 1

LoopDone == unit.fn = "_assemble_global_stiffness" /\ unit.returned

(* C25: during assembly a progress tick is printed after every 500th member  *)
(* in input order: once all members are processed exactly floor(M / 500)     *)
(* ticks have been printed, whether or not individual members were skipped.  *)
C25_TickPerFiveHundred ==
    LoopDone =>
        Len(SelectSeq(unit.out, LAMBDA r : r.type = "progress"))
            = TotalMembers(unit.members) \div TickEvery

(* C26: a member shorter than 1e-10 is dropped with a warning: it adds no    *)
(* triplets, a warning is printed, and the loop goes on to return the        *)
(* matrix.                                                                   *)
C26_ShortMemberWarned ==
    (LoopDone /\ \E k \in 1..Len(unit.members) : unit.members[k].kind = "short") =>
        \E k \in 1..Len(unit.out) : unit.out[k].type = "warning"

(* C28: whenever the iterative path is taken, CG runs with the ILU           *)
(* preconditioner built from K_ff; when the preconditioner cannot be built,  *)
(* the run does not end with an unpreconditioned solve reported as if        *)
(* nothing had happened: an error or a warning record tells of it.           *)
C28_NoSilentFallback ==
    (pc \in Terminal /\ sol.method = "iterative-cg" /\ sol.precond = "none") =>
        HasRecord(out, "error") \/ HasRecord(out, "warning")

(* C29: CG performs at most 2000 iterations, the iteration count of          *)
(* solverInfo never exceeds 2000, and once CG has stopped the run goes on to *)
(* its terminal record: after the iterative solve only post-processing and   *)
(* output are left, and a finished run holds the record (main) or the        *)
(* returned result (solve called directly).                                  *)
C29_CgTerminates ==
    sol.method = "iterative-cg" =>
        /\ sol.iterations <= MaxIter
        /\ result # NoResult => result.solverInfo.iterations <= MaxIter
        /\ pc \in Terminal \cup {"post", "output"}
        /\ pc = "exited" => Len(out) > 0 /\ Last(out).type \in {"result", "error"}
        /\ pc = "returned" => result # NoResult /\ result.solverInfo.method = "iterative-cg"

\* CG ran into maxiter and main printed the result record
C29_Witness ==
    /\ pc = "exited"
    /\ sol.method = "iterative-cg"
    /\ sol.outcome = "maxiter"
    /\ result.solverInfo.iterations = MaxIter
    /\ Last(out) = ResultRecord

\* the second solve of the instance has come past its boundary conditions
SecondSolveUnderWay == unit.fn = "solve" /\ unit.runs = 1 /\ dofs # NoDofs

(* C30: solve leaves the node, member, support and load tables of the        *)
(* instance unchanged, whether it succeeds or fails, and a second solve on   *)
(* the same instance sees the same model: it partitions the DOFs as the      *)
(* first did and prints the same records while it builds K and F.            *)
C30_SolveKeepsModel ==
    /\ [][input' = input /\ solver' = solver]_vars
    /\ [](SecondSolveUnderWay =>
            /\ dofs = unit.first.dofs
            /\ Len(out) <= Len(unit.first.out)
            /\ out = SubSeq(unit.first.out, 1, Len(out)))

\* a loaded model has been solved twice, the second time to the end
C30_Witness ==
    /\ SecondSolveUnderWay
    /\ pc = "returned"
    /\ unit.first.result.success
    /\ Len(input.loads) > 0
    /\ Len(input.members) > 0
    /\ Len(input.supports) > 0

=============================================================================
